---- MODULE Spec2Model ----
(***************************************************************************)
(* Model of the CSV table core (lib.js): parseCSV, buildData, filterRows,  *)
(* sortRows, buildPageList, getPageSlice, calcTotalPages, escapeCSVField.  *)
(* A string is a sequence of one-character strings; a row is a sequence of *)
(* strings; cursors are zero-based as in the source.                       *)
(***************************************************************************)
EXTENDS Integers, Sequences, FiniteSets, TLC

VARIABLES
  text,        \* parseCSV: the text being scanned (BOM-stripped after the first step)
  delim,       \* parseCSV: the detected delimiter
  i,           \* parseCSV: the cursor
  row,         \* parseCSV: the row under construction
  rows,        \* parseCSV: the rows kept so far
  pc,          \* position of the running pipeline
  field,       \* parseCSV: the field pushed by the last field scan
  fkind,       \* "quoted" / "unquoted" / "none": branch taken by the last field scan
  fstart,      \* cursor at which the last field scan began
  fend,        \* cursor when the last field was pushed (lib.js:44 / lib.js:54)
  scanned,     \* every row completed by the scanner, before the row filter of lib.js:61
  headers,     \* buildData: headers
  data,        \* buildData: data
  srcHeaders,  \* export round trip: the headers serialized
  srcRows,     \* export round trip: the rows serialized
  filtered,    \* pagination: the row sequence paged (state.filtered)
  page,        \* pagination: the page asked for (state.page)
  pageSize,    \* pagination: rows per page, 0 = all (state.pageSize)
  total,       \* pagination: result of calcTotalPages
  acc,         \* pagination: the page slices taken so far, concatenated
  cur,         \* page list: current page
  plist,       \* page list: result of buildPageList
  globalSearch, \* filterRows argument (state.globalSearch)
  colFilters,  \* filterRows argument (state.colFilters), possibly null
  sortCol,     \* sortRows argument (state.sortCol), zero-based, -1 = none
  sortDir,     \* sortRows argument (state.sortDir)
  colTypes,    \* sortRows argument (state.colTypes): types of columns 0, 1, ...
  lenient,     \* whether the host's Date.parse accepts non-ISO digit strings
  result,      \* value returned by the last filterRows / sortRows call
  result2,     \* value returned by filterRows applied to result
  slice,       \* pagination: value returned by getPageSlice for the page asked
  other,       \* detectColTypes: a second data set, equal to data on the sample
  otherTypes,  \* detectColTypes: the types detected for the second data set
  escVal,      \* escapeCSVField: the value passed
  escaped,     \* escapeCSVField: the string returned
  lines,       \* exportCSV: lines
  exported,    \* exportCSV: the text put in the Blob
  seps,        \* parseCSV: per row scanned, and for the row in progress (last),
               \* the delimiters met behind its fields
  fileName,    \* app: state.fileName
  shownName,   \* app: text of the #fileName element (app.js:341)
  pending,     \* app: per file, the FileReaders started by loadFile and not yet completed
  screen,      \* app: "upload" while the upload zone is visible, "table" while the table is
  buttons,     \* app: page targets of the enabled buttons drawn by the last renderPagination
  streak       \* app: column and length of the current run of activations of one header

parseVars == <<text, delim, i, row, rows, pc, field, fkind, fstart, fend, scanned, seps, headers, data>>
rtVars    == <<srcHeaders, srcRows>>
pageVars  == <<filtered, page, pageSize, total, acc, slice>>
listVars  == <<cur, plist>>
libVars   == <<globalSearch, colFilters, sortCol, sortDir, colTypes, lenient, result, result2>>
detVars   == <<other, otherTypes>>
expVars   == <<escVal, escaped, lines, exported>>
appVars   == <<fileName, shownName, pending, screen, buttons, streak>>
vars      == <<parseVars, rtVars, pageVars, listVars, libVars, detVars, expVars, appVars>>

----------------------------------------------------------------------------
(* Characters *)

DQ    == "\""
COMMA == ","
SEMI  == ";"
TAB   == "\t"
PIPE  == "|"
CR    == "\r"
LF    == "\n"
SP    == " "
BOM   == "BOM"      \* U+FEFF

\* Bounds
MaxLen      == 4    \* longest raw text handed to parseCSV
MaxCols     == 2    \* widest serialized table
MaxDataRows == 1    \* most data rows of a serialized table
MaxPageRows == 5    \* most rows handed to the paginator
MaxPageSize == 3    \* largest page size tried
MaxTotal    == 100  \* largest page count handed to buildPageList
MaxLibRows  == 3    \* most rows handed to filterRows / sortRows

----------------------------------------------------------------------------
(* String helpers *)

At(s, k) == s[k + 1]                       \* s[k], zero-based

\* s.slice(a, b) of JavaScript strings and arrays
Slice(s, a, b) ==
  LET n  == Len(s)
      a0 == IF a < 0 THEN (IF n + a < 0 THEN 0 ELSE n + a) ELSE (IF a > n THEN n ELSE a)
      b0 == IF b < 0 THEN (IF n + b < 0 THEN 0 ELSE n + b) ELSE (IF b > n THEN n ELSE b)
  IN  IF a0 >= b0 THEN << >> ELSE SubSeq(s, a0 + 1, b0)

RECURSIVE Concat(_)
Concat(ss) == IF ss = << >> THEN << >> ELSE Head(ss) \o Concat(Tail(ss))

RECURSIVE Join(_, _)
Join(ss, sep) ==
  IF ss = << >> THEN << >>
  ELSE IF Len(ss) = 1 THEN ss[1]
  ELSE ss[1] \o sep \o Join(Tail(ss), sep)

Includes(s, c) == \E k \in 1..Len(s) : s[k] = c

CountChar(s, c) == Cardinality({k \in 1..Len(s) : s[k] = c})

\* String.prototype.trim: white space and line terminators, U+FEFF included
IsSpace(c) == c \in {SP, TAB, LF, CR, BOM}

RECURSIVE TrimLeft(_)
TrimLeft(s) == IF s # << >> /\ IsSpace(Head(s)) THEN TrimLeft(Tail(s)) ELSE s

RECURSIVE TrimRight(_)
TrimRight(s) ==
  IF s # << >> /\ IsSpace(s[Len(s)]) THEN TrimRight(SubSeq(s, 1, Len(s) - 1)) ELSE s

Trim(s) == TrimRight(TrimLeft(s))

\* s.replace(/"/g, '""')
RECURSIVE DoubleQuotes(_)
DoubleQuotes(s) ==
  IF s = << >> THEN << >>
  ELSE (IF Head(s) = DQ THEN <<DQ, DQ>> ELSE <<Head(s)>>) \o DoubleQuotes(Tail(s))

\* Strings of length at most n over alphabet A
RECURSIVE StringsUpTo(_, _)
StringsUpTo(A, n) ==
  IF n = 0 THEN {<< >>}
  ELSE LET S == StringsUpTo(A, n - 1)
       IN  S \cup {Append(s, c) : s \in {t \in S : Len(t) = n - 1}, c \in A}

----------------------------------------------------------------------------
(* parseCSV *)

StripBOM(t) == IF t # << >> /\ t[1] = BOM THEN Tail(t) ELSE t

\* text.split(/\r?\n/)[0]
FirstLine(t) ==
  LET lfs == {k \in 1..Len(t) : t[k] = LF}
  IN  IF lfs = {} THEN t
      ELSE LET k == CHOOSE m \in lfs : \A j \in lfs : m <= j
           IN  IF k > 1 /\ t[k - 1] = CR THEN SubSeq(t, 1, k - 2) ELSE SubSeq(t, 1, k - 1)

delims == <<COMMA, SEMI, TAB, PIPE>>

RECURSIVE DetectFrom(_, _, _, _)
DetectFrom(line, k, best, maxCount) ==
  IF k > Len(delims) THEN best
  ELSE LET count == CountChar(line, delims[k])
       IN  IF count > maxCount THEN DetectFrom(line, k + 1, delims[k], count)
           ELSE DetectFrom(line, k + 1, best, maxCount)

DetectDelim(t) == DetectFrom(FirstLine(t), 1, COMMA, 0)

\* a quoted-field loop that closes the field at the first quote it meets
RECURSIVE QuotedBody_NoEscape(_, _, _)
QuotedBody_NoEscape(t, k, f) ==
  IF k >= Len(t) THEN [field |-> f, i |-> k]
  ELSE IF At(t, k) = DQ THEN [field |-> f, i |-> k + 1]
       ELSE QuotedBody_NoEscape(t, k + 1, Append(f, At(t, k)))

\* the inner loop of a quoted field, from the cursor after the opening quote
RECURSIVE QuotedBody(_, _, _)
QuotedBody(t, k, f) ==
  IF k >= Len(t) THEN [field |-> f, i |-> k]
  ELSE IF At(t, k) = DQ
       THEN IF k + 1 < Len(t) /\ At(t, k + 1) = DQ
            THEN QuotedBody(t, k + 2, Append(f, DQ))
            ELSE [field |-> f, i |-> k + 1]
       ELSE QuotedBody(t, k + 1, Append(f, At(t, k)))

\* the inner loop of an unquoted field
RECURSIVE UnquotedBody(_, _, _, _)
UnquotedBody(t, k, d, f) ==
  IF k < Len(t) /\ At(t, k) # d /\ At(t, k) # CR /\ At(t, k) # LF
  THEN UnquotedBody(t, k + 1, d, Append(f, At(t, k)))
  ELSE [field |-> f, i |-> k]

\* the step after a field leaving the cursor on the delimiter
AfterField_KeepDelim(t, k, d, quoted) ==
  IF k < Len(t) /\ At(t, k) = d THEN [i |-> k, brk |-> FALSE]
  ELSE IF k < Len(t) /\ At(t, k) = CR
       THEN [i |-> IF k + 1 < Len(t) /\ At(t, k + 1) = LF THEN k + 2 ELSE k + 1, brk |-> TRUE]
  ELSE IF k < Len(t) /\ At(t, k) = LF THEN [i |-> k + 1, brk |-> TRUE]
  ELSE [i |-> k, brk |-> ~quoted]

\* what follows a field: delimiter, CR[LF], LF, or anything else
AfterField(t, k, d, quoted) ==
  IF k < Len(t) /\ At(t, k) = d THEN [i |-> k + 1, brk |-> FALSE]
  ELSE IF k < Len(t) /\ At(t, k) = CR
       THEN [i |-> IF k + 1 < Len(t) /\ At(t, k + 1) = LF THEN k + 2 ELSE k + 1, brk |-> TRUE]
  ELSE IF k < Len(t) /\ At(t, k) = LF THEN [i |-> k + 1, brk |-> TRUE]
  ELSE [i |-> k, brk |-> ~quoted]

ScanQuoted(t, k, d) ==
  LET b == QuotedBody(t, k + 1, << >>)
      a == AfterField(t, b.i, d, TRUE)
  IN  [field |-> b.field, fend |-> b.i, i |-> a.i, brk |-> a.brk]

ScanUnquoted(t, k, d) ==
  LET b == UnquotedBody(t, k, d, << >>)
      a == AfterField(t, b.i, d, FALSE)
  IN  [field |-> Trim(b.field), fend |-> b.i, i |-> a.i, brk |-> a.brk]

ScanField(t, k, d) == IF At(t, k) = DQ THEN ScanQuoted(t, k, d) ELSE ScanUnquoted(t, k, d)

\* a row filter that drops every row whose first field is empty
KeepRow_FirstEmpty(r) == Len(r) > 0 /\ ~(r[1] = << >>)

\* the row filter
KeepRow(r) == Len(r) > 0 /\ ~(Len(r) = 1 /\ r[1] = << >>)

\* the two nested loops as a function of the cursor
RECURSIVE ScanRows(_, _, _, _, _)
ScanRows(t, k, d, r, rs) ==
  IF k >= Len(t) THEN rs
  ELSE LET s  == ScanField(t, k, d)
           r2 == Append(r, s.field)
       IN  IF s.brk \/ s.i >= Len(t)
           THEN ScanRows(t, s.i, d, << >>, IF KeepRow(r2) THEN Append(rs, r2) ELSE rs)
           ELSE ScanRows(t, s.i, d, r2, rs)

parseCSV(t0) ==
  LET t == StripBOM(t0)
      d == DetectDelim(t)
  IN  [rows |-> ScanRows(t, 0, d, << >>, << >>), delim |-> d]

----------------------------------------------------------------------------
(* buildData *)

Digit(k) == <<"0", "1", "2", "3", "4", "5", "6", "7", "8", "9">>[k + 1]

RECURSIVE NumToString(_)
NumToString(k) == IF k < 10 THEN <<Digit(k)>> ELSE Append(NumToString(k \div 10), Digit(k % 10))

ColumnName(k) == <<"C", "o", "l", "u", "m", "n", " ">> \o NumToString(k)

\* buildData naming an empty header by its zero-based index
buildData_ZeroBased(rs) ==
  IF Len(rs) = 0 THEN [headers |-> << >>, data |-> << >>]
  ELSE [headers |-> [k \in 1..Len(rs[1]) |->
                       IF rs[1][k] # << >> THEN rs[1][k] ELSE ColumnName(k - 1)],
        data    |-> Slice(rs, 1, Len(rs))]

buildData(rs) ==
  IF Len(rs) = 0 THEN [headers |-> << >>, data |-> << >>]
  ELSE [headers |-> [k \in 1..Len(rs[1]) |->
                       IF rs[1][k] # << >> THEN rs[1][k] ELSE ColumnName(k)],
        data    |-> Slice(rs, 1, Len(rs))]

----------------------------------------------------------------------------
(* escapeCSVField and the serialization of exportCSV *)

\* JavaScript values: null, undefined, a string, a number (not negative)
JsNull == [t |-> "null", s |-> << >>, n |-> 0]
JsUndefined == [t |-> "undefined", s |-> << >>, n |-> 0]
JsStr(x) == [t |-> "string", s |-> x, n |-> 0]
JsNum(k) == [t |-> "number", s |-> << >>, n |-> k]

\* String(val == null ? '' : val)
JsString(val) ==
  IF val.t \in {"null", "undefined"} THEN << >>
  ELSE IF val.t = "number" THEN NumToString(val.n)
  ELSE val.s

\* the quoting test without the carriage return
escapeCSVField_NoCR(s) ==
  IF Includes(s, COMMA) \/ Includes(s, DQ) \/ Includes(s, LF)
  THEN <<DQ>> \o DoubleQuotes(s) \o <<DQ>>
  ELSE s

\* escapeCSVField on the string s = String(val == null ? '' : val)
escapeCSVField(s) ==
  IF Includes(s, COMMA) \/ Includes(s, DQ) \/ Includes(s, LF) \/ Includes(s, CR)
  THEN <<DQ>> \o DoubleQuotes(s) \o <<DQ>>
  ELSE s

\* escapeCSVField(val) for a JavaScript value
EscapeValue(val) == escapeCSVField(JsString(val))

SerializeRow(r) == Join([k \in 1..Len(r) |-> escapeCSVField(r[k])], <<COMMA>>)

Serialize(hs, rs) ==
  <<BOM>> \o Join(<<SerializeRow(hs)>> \o [k \in 1..Len(rs) |-> SerializeRow(rs[k])], <<CR, LF>>)

\* a line holding every field of the row
ExportLine_WholeRow(hs, r) ==
  Join([c \in 1..Len(r) |-> EscapeValue(JsStr(r[c]))], <<COMMA>>)

\* headers.map((_, c) => escapeCSVField(row[c])).join(','): one field per
\* header, row[c] being undefined past the end of the row
ExportLine(hs, r) ==
  Join([c \in 1..Len(hs) |-> IF c <= Len(r) THEN EscapeValue(JsStr(r[c]))
                                            ELSE EscapeValue(JsUndefined)], <<COMMA>>)

\* exportCSV writing the rows of the page on display
ExportLines_PageOnly(hs, flt) ==
  LET shown == IF pageSize = 0 THEN flt
               ELSE Slice(flt, (page - 1) * pageSize, page * pageSize)
  IN  <<Join([c \in 1..Len(hs) |-> EscapeValue(JsStr(hs[c]))], <<COMMA>>)>>
        \o [k \in 1..Len(shown) |-> ExportLine(hs, shown[k])]

\* the lines of exportCSV
ExportLines(hs, flt) ==
  <<Join([c \in 1..Len(hs) |-> EscapeValue(JsStr(hs[c]))], <<COMMA>>)>>
    \o [k \in 1..Len(flt) |-> ExportLine(hs, flt[k])]

\* BOM + lines.join('\r\n')
ExportText(ls) == <<BOM>> \o Join(ls, <<CR, LF>>)

----------------------------------------------------------------------------
(* filterRows *)

ToLowerChar(c) == IF c = "A" THEN "a" ELSE IF c = "B" THEN "b" ELSE c

ToLower(s) == [k \in 1..Len(s) |-> ToLowerChar(s[k])]

\* String.prototype.includes
IncludesStr(s, sub) ==
  \E k \in 0..(Len(s) - Len(sub)) : SubSeq(s, k + 1, k + Len(sub)) = sub

\* row[c] == null ? '' : row[c], c zero-based
Cell(r, c) == IF c >= 0 /\ c < Len(r) THEN r[c + 1] ELSE << >>

\* the row test comparing the fields as they are, without toLowerCase
FilterKeeps_CaseSensitive(r, colCount, gLower, colLowers) ==
  /\ ~(gLower # << >> /\ ~\E k \in 1..Len(r) : IncludesStr(r[k], gLower))
  /\ \A c \in 0..(colCount - 1) :
        LET f == IF c < Len(colLowers) THEN colLowers[c + 1] ELSE << >>
        IN  f = << >> \/ IncludesStr(Cell(r, c), f)

FilterKeeps(r, colCount, gLower, colLowers) ==
  /\ ~(gLower # << >> /\ ~\E k \in 1..Len(r) : IncludesStr(ToLower(r[k]), gLower))
  /\ \A c \in 0..(colCount - 1) :
        LET f == IF c < Len(colLowers) THEN colLowers[c + 1] ELSE << >>
        IN  f = << >> \/ IncludesStr(ToLower(Cell(r, c)), f)

\* filterRows starting at the second row
filterRows_SkipFirst(d, hs, gs, cf) ==
  LET gLower    == ToLower(gs)
      cfs       == IF cf.null THEN << >> ELSE cf.val
      colLowers == [k \in 1..Len(cfs) |-> ToLower(cfs[k])]
      Keeps(r)  == FilterKeeps(r, Len(hs), gLower, colLowers)
  IN  SelectSeq(Slice(d, 1, Len(d)), Keeps)

filterRows(d, hs, gs, cf) ==
  LET gLower    == ToLower(gs)
      cfs       == IF cf.null THEN << >> ELSE cf.val
      colLowers == [k \in 1..Len(cfs) |-> ToLower(cfs[k])]
      Keeps(r)  == FilterKeeps(r, Len(hs), gLower, colLowers)
  IN  SelectSeq(d, Keeps)

\* the array passed to filterRows, after the call: Array.prototype.filter
\* builds a new array
filterRows_Arg(d, hs, gs, cf) == d

----------------------------------------------------------------------------
(* sortRows *)

IsDigit(c) == c \in {"0", "1", "2", "3", "4", "5", "6", "7", "8", "9"}
DigitVal(c) == CHOOSE v \in 0..9 : Digit(v) = c

\* s.replace(/,/g, '')
RECURSIVE StripCommas(_)
StripCommas(s) ==
  IF s = << >> THEN << >>
  ELSE (IF Head(s) = COMMA THEN << >> ELSE <<Head(s)>>) \o StripCommas(Tail(s))

RECURSIVE DigitRun(_)
DigitRun(s) == IF s # << >> /\ IsDigit(Head(s)) THEN <<Head(s)>> \o DigitRun(Tail(s)) ELSE << >>

RECURSIVE DigitsValue(_)
DigitsValue(ds) ==
  IF ds = << >> THEN 0 ELSE 10 * DigitsValue(SubSeq(ds, 1, Len(ds) - 1)) + DigitVal(ds[Len(ds)])

\* A number or NaN
NaN == [nan |-> TRUE, val |-> 0]
Num(v) == [nan |-> FALSE, val |-> v]

\* parseFloat on strings of digits, letters, blanks: the leading digit run
\* (after leading white space), NaN when there is none
ParseFloat(s) ==
  LET ds == DigitRun(TrimLeft(s)) IN IF ds = << >> THEN NaN ELSE Num(DigitsValue(ds))

DASH == "-"

\* the date a string in the ISO form YYYY-MM-DD names, as a number growing
\* with the date; "none" for any other string
IsoDate(s) ==
  IF /\ Len(s) = 10 /\ s[5] = DASH /\ s[8] = DASH
     /\ \A k \in {1, 2, 3, 4, 6, 7, 9, 10} : IsDigit(s[k])
  THEN [y |-> DigitsValue(SubSeq(s, 1, 4)), m |-> DigitsValue(SubSeq(s, 6, 7)),
        d |-> DigitsValue(SubSeq(s, 9, 10))]
  ELSE [y |-> 0, m |-> 0, d |-> 0]

DaysIn(m) == IF m = 2 THEN 28 ELSE IF m \in {4, 6, 9, 11} THEN 30 ELSE 31

\* Date.parse on strings of digits, letters, blanks, dashes. A date in the ISO
\* form is read the same by every host. Anything else is the host's: a lenient
\* host reads a digit string 1..12 as a month of one fixed year and lets an
\* ISO day past the end of the month roll over, a strict host returns NaN.
\* The number stands for the time value: it grows with the date.
DateParse(s, len) ==
  LET iso == IsoDate(s)
  IN  IF iso.m \in 1..12 /\ iso.d \in 1..DaysIn(iso.m)
      THEN Num(iso.y * 10000 + iso.m * 100 + iso.d)
      ELSE IF len /\ iso.m \in 1..12 /\ iso.d \in 1..31
      THEN Num(iso.y * 10000 + (iso.m + 1) * 100 + (iso.d - DaysIn(iso.m)))
      ELSE IF len /\ s # << >> /\ DigitRun(s) = s /\ DigitsValue(s) \in 1..12
      THEN Num(20010000 + DigitsValue(s) * 100 + 1)
      ELSE NaN

Sign(v) == IF v < 0 THEN -1 ELSE IF v > 0 THEN 1 ELSE 0

\* (isNaN(a) ? -Infinity : a) - (isNaN(b) ? -Infinity : b), as the sign the
\* sort sees; -Infinity - -Infinity is NaN, which Array.prototype.sort reads as 0
MinusInfDiff(a, b) ==
  IF a.nan /\ b.nan THEN 0
  ELSE IF a.nan THEN -1
  ELSE IF b.nan THEN 1
  ELSE Sign(a.val - b.val)

\* localeCompare(_, undefined, {sensitivity: 'base', numeric: true}):
\* collation elements, blank < digits (a digit run compares by value) < letters
\* (case ignored)
RECURSIVE CollationKey(_)
CollationKey(s) ==
  IF s = << >> THEN << >>
  ELSE IF IsDigit(Head(s))
       THEN LET ds == DigitRun(s)
            IN  <<<<1, DigitsValue(ds)>>>> \o CollationKey(SubSeq(s, Len(ds) + 1, Len(s)))
  ELSE IF Head(s) \in {"a", "A"} THEN <<<<2, 1>>>> \o CollationKey(Tail(s))
  ELSE IF Head(s) \in {"b", "B"} THEN <<<<2, 2>>>> \o CollationKey(Tail(s))
  ELSE IF Head(s) \in {"x", "y", "z"} THEN <<<<2, 3>>>> \o CollationKey(Tail(s))
  ELSE <<<<0, 0>>>> \o CollationKey(Tail(s))

RECURSIVE CompareKeys(_, _)
CompareKeys(a, b) ==
  IF a = << >> /\ b = << >> THEN 0
  ELSE IF a = << >> THEN -1
  ELSE IF b = << >> THEN 1
  ELSE IF a[1][1] # b[1][1] THEN Sign(a[1][1] - b[1][1])
  ELSE IF a[1][2] # b[1][2] THEN Sign(a[1][2] - b[1][2])
  ELSE CompareKeys(Tail(a), Tail(b))

LocaleCompare(a, b) == CompareKeys(CollationKey(a), CollationKey(b))

\* (colTypes && colTypes[sortCol]) || 'string'
TypeOf(types, c) == IF c >= 0 /\ c < Len(types) THEN types[c + 1] ELSE "string"

\* the comparator parsing the numbers with their commas
Compare_KeepCommas(a, b, c, dir, type, len) ==
  LET av  == Trim(Cell(a, c))
      bv  == Trim(Cell(b, c))
      cmp == IF type = "number"
             THEN MinusInfDiff(ParseFloat(av), ParseFloat(bv))
             ELSE IF type = "date"
             THEN MinusInfDiff(DateParse(av, len), DateParse(bv, len))
             ELSE LocaleCompare(av, bv)
  IN  IF dir = "asc" THEN cmp ELSE -cmp

\* the comparator of sortRows
Compare(a, b, c, dir, type, len) ==
  LET av  == Trim(Cell(a, c))
      bv  == Trim(Cell(b, c))
      cmp == IF type = "number"
             THEN MinusInfDiff(ParseFloat(StripCommas(av)), ParseFloat(StripCommas(bv)))
             ELSE IF type = "date"
             THEN MinusInfDiff(DateParse(av, len), DateParse(bv, len))
             ELSE LocaleCompare(av, bv)
  IN  IF dir = "asc" THEN cmp ELSE -cmp

\* Array.prototype.sort (stable): each element goes behind the elements that
\* do not compare greater than it
RECURSIVE StableSort(_, _, _, _, _, _)
StableSort(rs, done, c, dir, type, len) ==
  IF rs = << >> THEN done
  ELSE LET x == Head(rs)
           p == Cardinality({j \in 1..Len(done) : Compare(done[j], x, c, dir, type, len) <= 0})
       IN  StableSort(Tail(rs), SubSeq(done, 1, p) \o <<x>> \o SubSeq(done, p + 1, Len(done)),
                      c, dir, type, len)

\* sortRows getting 'desc' by reversing the ascending order
sortRows_ReverseForDesc(rs, c, dir, types, len) ==
  IF c < 0 \/ dir = "none" THEN rs
  ELSE LET up == StableSort(rs, << >>, c, "asc", TypeOf(types, c), len)
       IN  IF dir = "asc" THEN up ELSE [k \in 1..Len(up) |-> up[Len(up) + 1 - k]]

\* sortRows returning early only when both conditions hold
sortRows_BothNeeded(rs, c, dir, types, len) ==
  IF c < 0 /\ dir = "none" THEN rs
  ELSE StableSort(rs, << >>, c, dir, TypeOf(types, c), len)

sortRows(rs, c, dir, types, len) ==
  IF c < 0 \/ dir = "none" THEN rs
  ELSE StableSort(rs, << >>, c, dir, TypeOf(types, c), len)

\* sortRows sorting the array it was given
sortRows_ArgInPlace(rs, c, dir, types, len) == sortRows(rs, c, dir, types, len)

\* the array passed to sortRows, after the call: the sort works on rows.slice()
sortRows_Arg(rs, c, dir, types, len) == rs

----------------------------------------------------------------------------
(* detectColTypes *)

SampleSize == 500

\* Number(s) on strings of digits, letters, blanks, dashes: white space is
\* stripped, the empty string is 0, a digit string (after an optional sign) is
\* its value, anything else is NaN
NumberOf(s) ==
  LET t == Trim(s)
      u == IF t # << >> /\ Head(t) \in {DASH, "+"} THEN Tail(t) ELSE t
  IN  IF t = << >> THEN Num(0)
      ELSE IF u # << >> /\ DigitRun(u) = u
      THEN Num(IF Head(t) = DASH THEN -DigitsValue(u) ELSE DigitsValue(u))
      ELSE NaN

\* the type of column c: counts over the sample, then the 0.8 thresholds
\* (numOk / total >= 0.8 is numOk * 10 >= 8 * total: both are exact for
\* counts up to the sample size)
ColType_Above(sample, c, len) ==
  LET val(k) == Trim(Cell(sample[k], c))
      seen   == {k \in 1..Len(sample) : val(k) # << >>}
      numSet == {k \in seen : ~NumberOf(StripCommas(val(k))).nan}
      dateSet == {k \in seen \ numSet : ~DateParse(val(k), len).nan}
      nTotal  == Cardinality(seen)
      numOk  == Cardinality(numSet)
      dateOk == Cardinality(dateSet)
  IN  IF nTotal = 0 THEN "string"
      ELSE IF numOk * 10 > 8 * nTotal THEN "number"
      ELSE IF dateOk * 10 > 8 * nTotal THEN "date"
      ELSE "string"

ColType(sample, c, len) ==
  LET val(k) == Trim(Cell(sample[k], c))
      seen   == {k \in 1..Len(sample) : val(k) # << >>}
      numSet == {k \in seen : ~NumberOf(StripCommas(val(k))).nan}
      dateSet == {k \in seen \ numSet : ~DateParse(val(k), len).nan}
      nTotal  == Cardinality(seen)
      numOk  == Cardinality(numSet)
      dateOk == Cardinality(dateSet)
  IN  IF nTotal = 0 THEN "string"
      ELSE IF numOk * 10 >= 8 * nTotal THEN "number"
      ELSE IF dateOk * 10 >= 8 * nTotal THEN "date"
      ELSE "string"

\* detectColTypes reading every row
detectColTypes_AllRows(hs, d, len) ==
  [c \in 1..Len(hs) |-> ColType(d, c - 1, len)]

\* the map { 0: type, 1: type, ... } as the sequence of its values
detectColTypes(hs, d, len) ==
  LET sample == Slice(d, 0, SampleSize)
  IN  [c \in 1..Len(hs) |-> ColType(sample, c - 1, len)]

----------------------------------------------------------------------------
(* Pagination *)

Max(a, b) == IF a >= b THEN a ELSE b
Min(a, b) == IF a <= b THEN a ELSE b

\* Math.ceil(a / b) for a >= 0, b > 0
CeilDiv(a, b) == (a + b - 1) \div b

\* getPageSlice counting pages from zero
getPageSlice_ZeroBased(rs, p, size) ==
  IF size = 0 THEN rs
  ELSE LET start == p * size IN Slice(rs, start, start + size)

getPageSlice(rs, p, size) ==
  IF size = 0 THEN rs
  ELSE LET start == (p - 1) * size IN Slice(rs, start, start + size)

\* calcTotalPages rounding down
calcTotalPages_Floor(count, size) ==
  IF size = 0 THEN 1 ELSE Max(1, count \div size)

calcTotalPages(count, size) ==
  IF size = 0 THEN 1 ELSE Max(1, CeilDiv(count, size))

ELL == 0      \* the ellipsis marker; page numbers are 1 or more

addEllipsis(res) == IF res[Len(res)] # ELL THEN Append(res, ELL) ELSE res

\* buildPageList showing two pages on each side of the current one
buildPageList_WideWindow(c, t) ==
  IF t <= 7 THEN [k \in 1..t |-> k]
  ELSE LET r1 == <<1>>
           r2 == IF c > 3 THEN addEllipsis(r1) ELSE r1
           lo == Max(2, c - 2)
           hi == Min(t - 1, c + 2)
           r3 == r2 \o [k \in 1..(hi - lo + 1) |-> lo + k - 1]
           r4 == IF c < t - 2 THEN addEllipsis(r3) ELSE r3
       IN  Append(r4, t)

\* buildPageList putting the first marker from page 3 on
buildPageList_EarlyEllipsis(c, t) ==
  IF t <= 7 THEN [k \in 1..t |-> k]
  ELSE LET r1 == <<1>>
           r2 == IF c > 2 THEN addEllipsis(r1) ELSE r1
           lo == Max(2, c - 1)
           hi == Min(t - 1, c + 1)
           r3 == r2 \o [k \in 1..(hi - lo + 1) |-> lo + k - 1]
           r4 == IF c < t - 2 THEN addEllipsis(r3) ELSE r3
       IN  Append(r4, t)

\* buildPageList leaving out the last page of a short list
buildPageList_ShortLast(c, t) ==
  IF t <= 7 THEN [k \in 1..(t - 1) |-> k]
  ELSE LET r1 == <<1>>
           r2 == IF c > 3 THEN addEllipsis(r1) ELSE r1
           lo == Max(2, c - 1)
           hi == Min(t - 1, c + 1)
           r3 == r2 \o [k \in 1..(hi - lo + 1) |-> lo + k - 1]
           r4 == IF c < t - 2 THEN addEllipsis(r3) ELSE r3
       IN  Append(r4, t)

buildPageList(c, t) ==
  IF t <= 7 THEN [k \in 1..t |-> k]
  ELSE LET r1 == <<1>>
           r2 == IF c > 3 THEN addEllipsis(r1) ELSE r1
           lo == Max(2, c - 1)
           hi == Min(t - 1, c + 1)
           r3 == r2 \o [k \in 1..(hi - lo + 1) |-> lo + k - 1]
           r4 == IF c < t - 2 THEN addEllipsis(r3) ELSE r3
       IN  Append(r4, t)

----------------------------------------------------------------------------
(* The parser as a state machine: one step per field scanned *)

ParseAlphabet == {COMMA, SEMI, TAB, PIPE, DQ, CR, LF, SP, "a"}
Texts == LET S == StringsUpTo(ParseAlphabet, MaxLen) IN S \cup {<<BOM>> \o s : s \in S}

PageIdle ==
  filtered = << >> /\ page = 1 /\ pageSize = 0 /\ total = 1 /\ acc = << >> /\ slice = << >>

DetIdle == other = << >> /\ otherTypes = << >>

ExpIdle == escVal = JsNull /\ escaped = << >> /\ lines = << >> /\ exported = << >>

ReaderFiles == {"a.csv", "b.txt", "e.csv", "r.csv"}
NoReaders == [f \in ReaderFiles |-> 0]
NoStreak == [c |-> -1, n |-> 0]

\* app.js:9-21 and the page as served: upload zone visible, nothing drawn
AppIdle ==
  /\ fileName = "" /\ shownName = "" /\ pending = NoReaders /\ screen = "upload"
  /\ buttons = {} /\ streak = NoStreak

ListIdle == cur = 1 /\ plist = << >>

Null == [null |-> TRUE]                    \* null / undefined
Some(v) == [null |-> FALSE, val |-> v]

LibIdle ==
  /\ globalSearch = << >> /\ colFilters = Some(<< >>) /\ sortCol = -1 /\ sortDir = "none"
  /\ colTypes = << >> /\ lenient = FALSE /\ result = << >> /\ result2 = << >>

ParseIdle ==
  /\ delim = COMMA /\ i = 0 /\ row = << >> /\ rows = << >>
  /\ field = << >> /\ fkind = "none" /\ fstart = 0 /\ fend = 0 /\ scanned = << >> /\ seps = <<0>>
  /\ headers = << >> /\ data = << >>

\* lib.js:8-22
StripAndDetect ==
  /\ pc = "start"
  /\ text' = StripBOM(text)
  /\ delim' = DetectDelim(text')
  /\ i' = 0 /\ rows' = << >> /\ row' = << >>
  /\ pc' = "scan"
  /\ UNCHANGED <<field, fkind, fstart, fend, scanned, seps, headers, data, rtVars, pageVars, listVars, libVars, detVars, expVars, appVars>>

\* one iteration of the inner loop, with the row filter when the row ends
FieldStep(s, kind) ==
  LET r2     == Append(row, s.field)
      endRow == s.brk \/ s.i >= Len(text)
  IN  /\ field' = s.field /\ fkind' = kind /\ fstart' = i /\ fend' = s.fend
      /\ i' = s.i
      /\ row' = IF endRow THEN << >> ELSE r2
      /\ rows' = IF endRow /\ KeepRow(r2) THEN Append(rows, r2) ELSE rows
      /\ scanned' = IF endRow THEN Append(scanned, r2) ELSE scanned
      /\ seps' = LET n    == Len(seps)
                     took == IF ~s.brk /\ s.i > s.fend THEN 1 ELSE 0   \* lib.js:46, 55
                     done == [seps EXCEPT ![n] = @ + took]
                 IN  IF endRow THEN Append(done, 0) ELSE done
      /\ UNCHANGED <<text, delim, pc, headers, data, rtVars, pageVars, listVars, libVars, detVars, expVars, appVars>>

\* lib.js:27-47
ScanQuotedField ==
  /\ pc = "scan" /\ i < Len(text) /\ At(text, i) = DQ
  /\ FieldStep(ScanQuoted(text, i, delim), "quoted")

\* lib.js:48-59
ScanUnquotedField ==
  /\ pc = "scan" /\ i < Len(text) /\ At(text, i) # DQ
  /\ FieldStep(ScanUnquoted(text, i, delim), "unquoted")

\* lib.js:24, 66
ParseReturn ==
  /\ pc = "scan" /\ i >= Len(text)
  /\ pc' = "parsed"
  /\ UNCHANGED <<text, delim, i, row, rows, field, fkind, fstart, fend, scanned, seps, headers, data, rtVars, pageVars, listVars, libVars, detVars, expVars, appVars>>

\* lib.js:72-77, applied to the parser's rows
BuildData ==
  /\ pc = "parsed"
  /\ headers' = buildData(rows).headers
  /\ data' = buildData(rows).data
  /\ pc' = "built"
  /\ UNCHANGED <<text, delim, i, row, rows, field, fkind, fstart, fend, scanned, seps, rtVars, pageVars, listVars, libVars, detVars, expVars, appVars>>

ParseNext == StripAndDetect \/ ScanQuotedField \/ ScanUnquotedField \/ ParseReturn \/ BuildData

RtIdle == srcHeaders = << >> /\ srcRows = << >>

InitParse == text \in Texts /\ pc = "start" /\ ParseIdle /\ RtIdle /\ PageIdle /\ ListIdle /\ LibIdle /\ DetIdle /\ ExpIdle /\ AppIdle

SpecParse == InitParse /\ [][ParseNext]_vars

MaxLiveLen == 3

LiveTexts ==
  LET S == StringsUpTo(ParseAlphabet, MaxLiveLen) IN S \cup {<<BOM>> \o s : s \in S}

InitParseLive ==
  /\ text \in LiveTexts /\ pc = "start"
  /\ ParseIdle /\ RtIdle /\ PageIdle /\ ListIdle /\ LibIdle /\ DetIdle /\ ExpIdle /\ AppIdle

\* parseCSV and buildData are synchronous code: a loop that can take a step
\* takes it
SpecParseLive == InitParseLive /\ [][ParseNext]_vars /\ WF_vars(ParseNext)

----------------------------------------------------------------------------
(* Export round trip: serialize a table as exportCSV does, parse it back *)

RtFields == {<< >>, <<"a">>, <<"a", SP>>, <<COMMA, DQ>>, <<CR, LF>>, <<SEMI>>}

RECURSIVE SeqsUpTo(_, _, _)
SeqsUpTo(S, lo, hi) ==       \* sequences over S with lo <= length <= hi
  IF hi < lo THEN {}
  ELSE SeqsUpTo(S, lo, hi - 1) \cup [1..hi -> S]

\* app.js:360-365
ExportSerialize ==
  /\ pc = "export"
  /\ text' = Serialize(srcHeaders, srcRows)
  /\ pc' = "start"
  /\ UNCHANGED <<delim, i, row, rows, field, fkind, fstart, fend, scanned, seps, headers, data, rtVars, pageVars, listVars, libVars, detVars, expVars, appVars>>

InitRoundTrip ==
  /\ srcHeaders \in SeqsUpTo(RtFields \ {<< >>}, 1, MaxCols)   \* named columns
  /\ srcRows \in SeqsUpTo(SeqsUpTo(RtFields, 1, MaxCols), 0, MaxDataRows)
  /\ text = << >> /\ pc = "export" /\ ParseIdle /\ PageIdle /\ ListIdle /\ LibIdle /\ DetIdle /\ ExpIdle /\ AppIdle

NextRoundTrip == ExportSerialize \/ ParseNext

SpecRoundTrip == InitRoundTrip /\ [][NextRoundTrip]_vars

----------------------------------------------------------------------------
(* Paging through a row sequence: every page from 1 to calcTotalPages *)

PageRowSet == {<<"a">>, <<"b">>}

\* app.js:40-42
CalcTotal ==
  /\ pc = "count"
  /\ total' = calcTotalPages(Len(filtered), pageSize)
  /\ pc' = "slice"
  /\ UNCHANGED <<filtered, page, pageSize, acc, slice, text, delim, i, row, rows, field, fkind,
                 fstart, fend, scanned, seps, headers, data, rtVars, listVars, libVars, detVars, expVars, appVars>>

\* app.js:36-38 for the next page
TakePage ==
  /\ pc = "slice" /\ page <= total
  /\ acc' = acc \o getPageSlice(filtered, page, pageSize)
  /\ page' = page + 1
  /\ UNCHANGED <<filtered, pageSize, total, slice, pc, text, delim, i, row, rows, field, fkind,
                 fstart, fend, scanned, seps, headers, data, rtVars, listVars, libVars, detVars, expVars, appVars>>

MaxAskPage == 3

\* app.js:36-38 for any page number, also below 1 and past the last page
AskPage ==
  /\ pc = "count"
  /\ \E p \in (-MaxAskPage)..(MaxPageRows + 2) :
       /\ page' = p
       /\ slice' = getPageSlice(filtered, p, pageSize)
  /\ pc' = "asked"
  /\ UNCHANGED <<filtered, pageSize, total, acc, text, delim, i, row, rows, field, fkind,
                 fstart, fend, scanned, seps, headers, data, rtVars, listVars, libVars, detVars, expVars, appVars>>

LastPageTaken ==
  /\ pc = "slice" /\ page > total
  /\ pc' = "covered"
  /\ UNCHANGED <<pageVars, text, delim, i, row, rows, field, fkind,
                 fstart, fend, scanned, seps, headers, data, rtVars, listVars, libVars, detVars, expVars, appVars>>

InitPaging ==
  /\ filtered \in SeqsUpTo(PageRowSet, 0, MaxPageRows)
  /\ pageSize \in 0..MaxPageSize
  /\ page = 1 /\ total = 1 /\ acc = << >> /\ slice = << >> /\ pc = "count"
  /\ text = << >> /\ ParseIdle /\ RtIdle /\ ListIdle /\ LibIdle /\ DetIdle /\ ExpIdle /\ AppIdle

NextPaging == CalcTotal \/ TakePage \/ LastPageTaken \/ AskPage

SpecPaging == InitPaging /\ [][NextPaging]_vars

----------------------------------------------------------------------------
(* The page-button list *)

\* app.js:215
BuildPageList ==
  /\ pc = "list"
  /\ plist' = buildPageList(cur, total)
  /\ pc' = "listed"
  /\ UNCHANGED <<cur, filtered, page, pageSize, total, acc, slice, text, delim, i, row, rows, field,
                 fkind, fstart, fend, scanned, seps, headers, data, rtVars, libVars, detVars, expVars, appVars>>

InitPageList ==
  /\ total \in 1..MaxTotal /\ cur \in 1..total
  /\ plist = << >> /\ pc = "list"
  /\ filtered = << >> /\ page = 1 /\ pageSize = 0 /\ acc = << >> /\ slice = << >>
  /\ text = << >> /\ ParseIdle /\ RtIdle /\ LibIdle /\ DetIdle /\ ExpIdle /\ AppIdle

NextPageList == BuildPageList

SpecPageList == InitPageList /\ [][NextPageList]_vars

----------------------------------------------------------------------------
(* filterRows and sortRows applied to a table *)

LibRows ==
  { << <<"b">>, <<"2">> >>,
    << <<"A">>, <<"1", "0">> >>,
    << <<"a">>, <<SP, "2">> >>,
    << <<"A", "b">> >>,
    << << >>, <<"x">> >>,
    << <<"B">>, <<"1", COMMA, "0">> >> }

LibHeaders == { << <<"x">> >>, << <<"x">>, <<"y">> >> }

LibSearches == {<< >>, <<"a">>, <<"B">>}

LibColFilters ==
  { Null, Some(<< >>), Some(<< <<"A">> >>), Some(<< << >>, <<"2">> >>),
    Some(<< <<"b">>, <<"0">>, <<"z">> >>) }

LibTypeMaps ==
  { << >>, <<"string", "number">>, <<"number", "string">>, <<"date", "date">> }

LibUnchanged ==
  UNCHANGED <<text, delim, i, row, rows, field, fkind, fstart, fend, scanned, seps, headers,
              rtVars, pageVars, listVars, detVars, expVars, appVars>>

\* app.js:27
DoFilter ==
  /\ pc = "lib"
  /\ \E gs \in LibSearches, cf \in LibColFilters :
       /\ globalSearch' = gs /\ colFilters' = cf
       /\ result' = filterRows(data, headers, gs, cf)
       /\ data' = filterRows_Arg(data, headers, gs, cf)
  /\ pc' = "filtered"
  /\ UNCHANGED <<sortCol, sortDir, colTypes, lenient, result2>>
  /\ LibUnchanged

\* filterRows on its own result
DoFilterAgain ==
  /\ pc = "filtered"
  /\ result2' = filterRows(result, headers, globalSearch, colFilters)
  /\ result' = filterRows_Arg(result, headers, globalSearch, colFilters)
  /\ pc' = "refiltered"
  /\ UNCHANGED <<data, globalSearch, colFilters, sortCol, sortDir, colTypes, lenient>>
  /\ LibUnchanged

\* app.js:28
DoSort ==
  /\ pc = "lib"
  /\ \E c \in -1..1, dir \in {"asc", "desc", "none"}, types \in LibTypeMaps, len \in BOOLEAN :
       /\ sortCol' = c /\ sortDir' = dir /\ colTypes' = types /\ lenient' = len
       /\ result' = sortRows(data, c, dir, types, len)
       /\ data' = sortRows_Arg(data, c, dir, types, len)
  /\ pc' = "sorted"
  /\ UNCHANGED <<globalSearch, colFilters, result2>>
  /\ LibUnchanged

InitLib ==
  /\ data \in SeqsUpTo(LibRows, 0, MaxLibRows)
  /\ headers \in LibHeaders
  /\ pc = "lib" /\ LibIdle
  /\ text = << >> /\ delim = COMMA /\ i = 0 /\ row = << >> /\ rows = << >>
  /\ field = << >> /\ fkind = "none" /\ fstart = 0 /\ fend = 0 /\ scanned = << >> /\ seps = <<0>>
  /\ RtIdle /\ PageIdle /\ ListIdle /\ DetIdle /\ ExpIdle /\ AppIdle

NextLib == DoFilter \/ DoFilterAgain \/ DoSort

SpecLib == InitLib /\ [][NextLib]_vars

----------------------------------------------------------------------------
(* detectColTypes applied to a table, and to a second table that has the
   same first SampleSize rows *)

MaxTail == 1

IsoDay == <<"2", "0", "2", "0", DASH, "0", "1", DASH, "0", "2">>
PastMonthEnd == <<"2", "0", "2", "1", DASH, "0", "2", DASH, "3", "0">>

DetRows ==
  { << <<"7">> >>,
    << <<"x">> >>,
    << IsoDay >>,
    << PastMonthEnd, <<SP>> >>,
    << << >>, <<"1", COMMA, "0">> >> }

DetTailRows == { << <<"x">> >>, << IsoDay >> }

\* lengths of the two blocks of a table: a few rows, or four fifths and one
\* fifth of the sample, with and without one row past the sample
DetShapes ==
  LET fifth == SampleSize \div 5
  IN  ({0, 1, 4} \X {0, 1, 4})
        \cup {<<4 * fifth, fifth>>, <<4 * fifth, fifth + 1>>,
              <<fifth, 4 * fifth>>, <<fifth + 1, 4 * fifth>>}

Repeat(r, n) == [k \in 1..n |-> r]

DetUnchanged ==
  UNCHANGED <<text, delim, i, row, rows, field, fkind, fstart, fend, scanned, seps, headers, data,
              globalSearch, colFilters, sortCol, sortDir, lenient, result, result2,
              rtVars, pageVars, listVars, expVars, appVars>>

\* app.js:330
DetectTypes ==
  /\ pc = "detect"
  /\ colTypes' = detectColTypes(headers, data, lenient)
  /\ pc' = "detected"
  /\ UNCHANGED <<other, otherTypes>>
  /\ DetUnchanged

\* the same call on the second table
DetectOther ==
  /\ pc = "detected"
  /\ otherTypes' = detectColTypes(headers, other, lenient)
  /\ pc' = "detectedBoth"
  /\ UNCHANGED <<other, colTypes>>
  /\ DetUnchanged

InitDetect ==
  /\ \E r1 \in DetRows, r2 \in DetRows, n \in DetShapes :
       data = Repeat(r1, n[1]) \o Repeat(r2, n[2])
  /\ other \in IF Len(data) >= SampleSize
               THEN {Slice(data, 0, SampleSize) \o t : t \in SeqsUpTo(DetTailRows, 0, MaxTail)}
               ELSE {data}
  /\ headers \in LibHeaders
  /\ lenient \in BOOLEAN
  /\ otherTypes = << >> /\ pc = "detect"
  /\ globalSearch = << >> /\ colFilters = Some(<< >>) /\ sortCol = -1 /\ sortDir = "none"
  /\ colTypes = << >> /\ result = << >> /\ result2 = << >>
  /\ text = << >> /\ delim = COMMA /\ i = 0 /\ row = << >> /\ rows = << >>
  /\ field = << >> /\ fkind = "none" /\ fstart = 0 /\ fend = 0 /\ scanned = << >> /\ seps = <<0>>
  /\ RtIdle /\ PageIdle /\ ListIdle /\ ExpIdle /\ AppIdle

NextDetect == DetectTypes \/ DetectOther

SpecDetect == InitDetect /\ [][NextDetect]_vars

----------------------------------------------------------------------------
(* escapeCSVField applied to a value *)

MaxEscLen == 3

EscAlphabet == {COMMA, DQ, LF, CR, SP, "a"}

EscValues ==
  {JsNull, JsUndefined, JsNum(0), JsNum(42)}
    \cup {JsStr(x) : x \in StringsUpTo(EscAlphabet, MaxEscLen)}

\* lib.js:195-201
EscapeField ==
  /\ pc = "escape"
  /\ escaped' = EscapeValue(escVal)
  /\ pc' = "escaped"
  /\ UNCHANGED <<escVal, lines, exported, text, delim, i, row, rows, field, fkind, fstart, fend,
                 scanned, seps, headers, data, rtVars, pageVars, listVars, libVars, detVars, appVars>>

InitEscape ==
  /\ escVal \in EscValues
  /\ escaped = << >> /\ lines = << >> /\ exported = << >> /\ pc = "escape"
  /\ text = << >> /\ ParseIdle /\ RtIdle /\ PageIdle /\ ListIdle /\ LibIdle /\ DetIdle /\ AppIdle

NextEscape == EscapeField

SpecEscape == InitEscape /\ [][NextEscape]_vars

----------------------------------------------------------------------------
(* The view: paging through the filtered rows and exporting them *)

MaxExpRows == 3

ExpRows == { << <<"a">> >>, << <<"b">>, <<COMMA>> >>, << <<"c">>, <<"d">>, <<"e">> >> }

ExpPageSizes == 0..2

ExpSearches == {<< >>, <<"e">>, <<"b">>}

ExpUnchanged ==
  UNCHANGED <<text, delim, i, row, rows, field, fkind, fstart, fend, scanned, seps, headers, data,
              filtered, total, acc, slice, escVal, escaped, pc,
              rtVars, listVars, libVars, detVars, appVars>>

\* app.js:203-204: a page button
GoToPage ==
  /\ pc = "view"
  /\ \E p \in 1..calcTotalPages(Len(filtered), pageSize) : p # page /\ page' = p
  /\ UNCHANGED <<pageSize, lines, exported>>
  /\ ExpUnchanged

\* app.js:454-456: the page size selector
SetPageSize ==
  /\ pc = "view"
  /\ \E size \in ExpPageSizes : size # pageSize /\ pageSize' = size
  /\ page' = 1
  /\ UNCHANGED <<lines, exported>>
  /\ ExpUnchanged

\* app.js:356-365
ExportCSV ==
  /\ pc = "view"
  /\ lines' = ExportLines(headers, filtered)
  /\ exported' = ExportText(lines')
  /\ UNCHANGED <<page, pageSize>>
  /\ ExpUnchanged

InitExport ==
  /\ headers \in LibHeaders
  /\ data \in SeqsUpTo(ExpRows, 0, MaxExpRows)
  /\ globalSearch \in ExpSearches
  /\ colFilters = Some(<< >>) /\ sortCol = -1 /\ sortDir = "none"
  /\ colTypes = << >> /\ lenient = FALSE /\ result = << >> /\ result2 = << >>
  \* app.js:26-31, with no column filter and no sort
  /\ filtered = sortRows(filterRows(data, headers, globalSearch, colFilters),
                         sortCol, sortDir, colTypes, lenient)
  /\ pageSize \in ExpPageSizes /\ page = 1
  /\ total = 1 /\ acc = << >> /\ slice = << >> /\ pc = "view"
  /\ text = << >> /\ delim = COMMA /\ i = 0 /\ row = << >> /\ rows = << >>
  /\ field = << >> /\ fkind = "none" /\ fstart = 0 /\ fend = 0 /\ scanned = << >> /\ seps = <<0>>
  /\ RtIdle /\ ListIdle /\ DetIdle /\ ExpIdle /\ AppIdle

NextExport == GoToPage \/ SetPageSize \/ ExportCSV

SpecExport == InitExport /\ [][NextExport]_vars

----------------------------------------------------------------------------
(* The application: loading files, the table's handlers, "Load new file" *)

MaxPending == 2     \* FileReaders in flight at once

\* app.js:265-270: the extensions and MIME types loadFile accepts
isCSVFile(name) == name \in {"a.csv", "b.txt", "e.csv", "r.csv"}

\* what a FileReader delivers for each file: a two-column table with a long
\* and a short row, a one-column table of numbers, and an empty file;
\* reading "r.csv" fails, and "x.png" is not a file loadFile accepts
FileText(name) ==
  CASE name = "a.csv" -> <<"x", COMMA, "y", LF, "b", COMMA, "2", LF,
                           "A", COMMA, "1", "0", COMMA, "e", LF, "a">>
    [] name = "b.txt" -> <<"n", LF, "3", LF, "1", LF, "2">>
    [] OTHER          -> << >>

Readable(name) == name # "r.csv"

AppFiles == ReaderFiles \cup {"x.png"}

AppSearches == {<< >>, <<"a">>, <<"1">>}     \* values typed in the search box
AppFilters == {<< >>, <<"1">>}               \* values typed in a column filter
\* values of the page size selector: 0 is "All", 50 the initial size; 1 and 2
\* stand for its other finite sizes, on tables of three rows
AppPageSizes == {0, 1, 2, 50}

InFlight == LET RECURSIVE Sum(_)
                Sum(S) == IF S = {} THEN 0
                          ELSE LET f == CHOOSE f \in S : TRUE
                               IN  pending[f] + Sum(S \ {f})
            IN  Sum(ReaderFiles)

\* app.js:26-31 with a sort step that leaves the filtered rows as they are
applyFiltersAndSort_NoSort(d, hs, gs, cf, sc, sd, types, len) ==
  filterRows(d, hs, gs, cf)

\* app.js:26-29: the value assigned to state.filtered
applyFiltersAndSort(d, hs, gs, cf, sc, sd, types, len) ==
  sortRows(filterRows(d, hs, gs, cf), sc, sd, types, len)

\* the header click with a third state that sorts ascending again
activate_NoReset(sc, sd, c) ==
  IF sc # c THEN [sortCol |-> c, sortDir |-> "asc"]
  ELSE IF sd = "asc" THEN [sortCol |-> c, sortDir |-> "desc"]
  ELSE [sortCol |-> c, sortDir |-> "asc"]

\* app.js:88-93
activate(sc, sd, c) ==
  IF sc # c THEN [sortCol |-> c, sortDir |-> "asc"]
  ELSE IF sd = "asc" THEN [sortCol |-> c, sortDir |-> "desc"]
  ELSE [sortCol |-> -1, sortDir |-> "none"]

\* renderPagination with a next button that is never disabled
renderPagination_NextAlways(p, count, size) ==
  LET tot  == calcTotalPages(count, size)
      list == buildPageList(p, tot)
  IN  IF tot <= 1 THEN {}
      ELSE (IF p = 1 THEN {} ELSE {p - 1})
           \cup {list[k] : k \in {j \in 1..Len(list) : list[j] # ELL /\ list[j] # p}}
           \cup {p + 1}

\* app.js:186-225: the targets of the buttons that have a click handler and
\* are not disabled
renderPagination(p, count, size) ==
  LET tot  == calcTotalPages(count, size)
      list == buildPageList(p, tot)
  IN  IF tot <= 1 THEN {}
      ELSE (IF p = 1 THEN {} ELSE {p - 1})
           \cup {list[k] : k \in {j \in 1..Len(list) : list[j] # ELL /\ list[j] # p}}
           \cup (IF p = tot THEN {} ELSE {p + 1})

AppUnchanged ==
  UNCHANGED <<text, delim, i, row, rows, pc, field, fkind, fstart, fend, scanned, seps,
              total, acc, slice, lenient, result, result2,
              rtVars, listVars, detVars, expVars>>

\* app.js:289-295: no file, or a file of a type that is not accepted
RejectFile ==
  /\ screen = "upload"
  /\ \E f \in AppFiles : ~isCSVFile(f)
  /\ UNCHANGED <<headers, data, colTypes, filtered, sortCol, sortDir, globalSearch,
                 colFilters, page, pageSize, appVars>>
  /\ AppUnchanged

\* app.js:289-307, 350: an accepted file; the reader is started
LoadFile ==
  /\ screen = "upload"
  /\ InFlight < MaxPending
  /\ \E f \in AppFiles :
       /\ isCSVFile(f)
       /\ fileName' = f
       /\ pending' = [pending EXCEPT ![f] = @ + 1]
  /\ UNCHANGED <<headers, data, colTypes, filtered, sortCol, sortDir, globalSearch,
                 colFilters, page, pageSize, shownName, screen, buttons, streak>>
  /\ AppUnchanged

\* app.js:309-313: reader.onerror
ReaderError ==
  /\ \E f \in ReaderFiles :
       /\ pending[f] > 0 /\ ~Readable(f)
       /\ pending' = [pending EXCEPT ![f] = @ - 1]
  /\ UNCHANGED <<headers, data, colTypes, filtered, sortCol, sortDir, globalSearch,
                 colFilters, page, pageSize, fileName, shownName, screen, buttons, streak>>
  /\ AppUnchanged

\* app.js:315-323: reader.onload of a text without a header row
ReaderLoadEmpty ==
  /\ \E f \in ReaderFiles :
       /\ pending[f] > 0 /\ Readable(f)
       /\ buildData(parseCSV(FileText(f)).rows).headers = << >>
       /\ pending' = [pending EXCEPT ![f] = @ - 1]
  /\ UNCHANGED <<headers, data, colTypes, filtered, sortCol, sortDir, globalSearch,
                 colFilters, page, pageSize, fileName, shownName, screen, buttons, streak>>
  /\ AppUnchanged

\* app.js:315-348: reader.onload of a text with a header row
ReaderLoadTable ==
  /\ \E f \in ReaderFiles :
       LET built == buildData(parseCSV(FileText(f)).rows)
       IN  /\ pending[f] > 0 /\ Readable(f)
           /\ built.headers # << >>
           /\ pending' = [pending EXCEPT ![f] = @ - 1]
           /\ headers' = built.headers
           /\ data' = built.data
           /\ colTypes' = detectColTypes(built.headers, built.data, lenient)
           /\ colFilters' = Some([k \in 1..Len(built.headers) |-> << >>])
           /\ globalSearch' = << >>
           /\ sortCol' = -1
           /\ sortDir' = "none"
           /\ filtered' = applyFiltersAndSort(data', headers', globalSearch', colFilters',
                                              sortCol', sortDir', colTypes', lenient)
           /\ page' = 1
           /\ screen' = "table"
           /\ shownName' = f
           /\ buttons' = renderPagination(page', Len(filtered'), pageSize)
  /\ streak' = NoStreak
  /\ UNCHANGED <<pageSize, fileName>>
  /\ AppUnchanged

\* app.js:26-31 and the renderPagination call that ends every handler of the
\* table, for the new search, filters and sort
Refresh(gs, cf, sc, sd) ==
  /\ filtered' = applyFiltersAndSort(data, headers, gs, cf, sc, sd, colTypes, lenient)
  /\ page' = 1
  /\ buttons' = renderPagination(page', Len(filtered'), pageSize)

\* app.js:88-98: a click (or Enter / Space) on the header of column c
Activate ==
  /\ screen = "table"
  /\ \E c \in 0..(Len(headers) - 1) :
       LET next == activate(sortCol, sortDir, c)
       IN  /\ sortCol' = next.sortCol
           /\ sortDir' = next.sortDir
           /\ streak' = IF sortCol # c THEN [c |-> c, n |-> 1]
                        ELSE IF streak.c = c THEN [c |-> c, n |-> streak.n + 1]
                        ELSE NoStreak
           /\ Refresh(globalSearch, colFilters, next.sortCol, next.sortDir)
  /\ UNCHANGED <<headers, data, colTypes, globalSearch, colFilters, pageSize,
                 fileName, shownName, pending, screen>>
  /\ AppUnchanged

\* app.js:433-440: typing in the search box
SearchInput ==
  /\ screen = "table"
  /\ \E v \in AppSearches :
       /\ v # globalSearch
       /\ globalSearch' = v
       /\ Refresh(v, colFilters, sortCol, sortDir)
  /\ streak' = NoStreak
  /\ UNCHANGED <<headers, data, colTypes, sortCol, sortDir, colFilters, pageSize,
                 fileName, shownName, pending, screen>>
  /\ AppUnchanged

\* app.js:442-451: the clear button of the search box
ClearSearch ==
  /\ screen = "table"
  /\ globalSearch # << >>
  /\ globalSearch' = << >>
  /\ Refresh(<< >>, colFilters, sortCol, sortDir)
  /\ streak' = NoStreak
  /\ UNCHANGED <<headers, data, colTypes, sortCol, sortDir, colFilters, pageSize,
                 fileName, shownName, pending, screen>>
  /\ AppUnchanged

\* app.js:141-147: typing in the filter of column c
ColFilterInput ==
  /\ screen = "table"
  /\ \E c \in 0..(Len(headers) - 1), v \in AppFilters :
       /\ v # colFilters.val[c + 1]
       /\ colFilters' = Some([colFilters.val EXCEPT ![c + 1] = v])
       /\ Refresh(globalSearch, colFilters', sortCol, sortDir)
  /\ streak' = NoStreak
  /\ UNCHANGED <<headers, data, colTypes, sortCol, sortDir, globalSearch, pageSize,
                 fileName, shownName, pending, screen>>
  /\ AppUnchanged

\* app.js:201-209: a click on an enabled page button
PageClick ==
  /\ screen = "table"
  /\ \E p \in buttons : page' = p
  /\ buttons' = renderPagination(page', Len(filtered), pageSize)
  /\ streak' = NoStreak
  /\ UNCHANGED <<headers, data, colTypes, filtered, sortCol, sortDir, globalSearch,
                 colFilters, pageSize, fileName, shownName, pending, screen>>
  /\ AppUnchanged

\* app.js:454-460: the page size selector
PageSizeChange ==
  /\ screen = "table"
  /\ \E size \in AppPageSizes : size # pageSize /\ pageSize' = size
  /\ page' = 1
  /\ buttons' = renderPagination(page', Len(filtered), pageSize')
  /\ streak' = NoStreak
  /\ UNCHANGED <<headers, data, colTypes, filtered, sortCol, sortDir, globalSearch,
                 colFilters, fileName, shownName, pending, screen>>
  /\ AppUnchanged

\* app.js:379-388: the "Load new file" button
resetToUpload ==
  /\ screen = "table"
  /\ headers' = << >>
  /\ data' = << >>
  /\ filtered' = << >>
  /\ screen' = "upload"
  /\ streak' = NoStreak
  /\ UNCHANGED <<colTypes, sortCol, sortDir, globalSearch, colFilters, page, pageSize,
                 fileName, shownName, pending, buttons>>
  /\ AppUnchanged

\* app.js:9-21
InitApp ==
  /\ headers = << >> /\ data = << >> /\ colTypes = << >> /\ filtered = << >>
  /\ sortCol = -1 /\ sortDir = "none" /\ globalSearch = << >> /\ colFilters = Some(<< >>)
  /\ page = 1 /\ pageSize = 50
  /\ AppIdle
  \* the texts loaded hold nothing Date.parse accepts on any host
  /\ lenient = FALSE
  /\ pc = "app" /\ text = << >> /\ delim = COMMA /\ i = 0 /\ row = << >> /\ rows = << >>
  /\ field = << >> /\ fkind = "none" /\ fstart = 0 /\ fend = 0 /\ scanned = << >> /\ seps = <<0>>
  /\ total = 1 /\ acc = << >> /\ slice = << >> /\ result = << >> /\ result2 = << >>
  /\ RtIdle /\ ListIdle /\ DetIdle /\ ExpIdle

NextApp ==
  \/ RejectFile \/ LoadFile \/ ReaderError \/ ReaderLoadEmpty \/ ReaderLoadTable
  \/ Activate \/ SearchInput \/ ClearSearch \/ ColFilterInput
  \/ PageClick \/ PageSizeChange \/ resetToUpload

SpecApp == InitApp /\ [][NextApp]_vars

----------------------------------------------------------------------------
(* Claims about the parser, the table builder and the exporter *)

\* C1: a table serialized as exportCSV does (escapeCSVField per field, ','
\* between fields, CRLF between rows, BOM in front) and passed through
\* parseCSV and buildData comes back with the same headers and the same data,
\* field for field.
C1_RoundTrip == pc = "built" => headers = srcHeaders /\ data = srcRows

\* the text before the first line break, a lone CR counting as a line break
ClaimedFirstLine(t) ==
  LET brks == {k \in 1..Len(t) : t[k] \in {CR, LF}}
  IN  IF brks = {} THEN t
      ELSE SubSeq(t, 1, (CHOOSE m \in brks : \A j \in brks : m <= j) - 1)

\* the earliest-listed candidate among those occurring most often
MostFrequentDelim(line) ==
  LET k == CHOOSE m \in 1..Len(delims) :
             /\ \A j \in 1..Len(delims) : CountChar(line, delims[m]) >= CountChar(line, delims[j])
             /\ \A j \in 1..(m - 1) : CountChar(line, delims[j]) < CountChar(line, delims[m])
  IN  delims[k]

\* C7: the delimiter returned is the candidate (comma, semicolon, tab, pipe)
\* occurring most often in the first line of the BOM-stripped text, the first
\* line ending at the first LF, CRLF or lone CR; the earlier candidate wins a
\* tie and comma is returned when none occurs.
C7_DelimiterOfFirstLine ==
  pc # "start" => delim = MostFrequentDelim(ClaimedFirstLine(text))

\* C8: a field that starts with a double quote has as value the characters
\* between the opening quote and the first quote not paired with a following
\* quote, each doubled quote read as one quote: the text between the two
\* quotes is the value with its quotes doubled, so delimiters, CR, LF and
\* white space in it are kept and end neither the field nor the row.
C8_QuotedFieldValue ==
  fkind = "quoted" =>
    LET n == Len(text)
        closed   == /\ fend >= fstart + 2
                    /\ At(text, fend - 1) = DQ
                    /\ (fend < n => At(text, fend) # DQ)
                    /\ SubSeq(text, fstart + 2, fend - 1) = DoubleQuotes(field)
        unclosed == /\ fend = n
                    /\ SubSeq(text, fstart + 2, n) = DoubleQuotes(field)
    IN  /\ At(text, fstart) = DQ
        /\ closed \/ unclosed
        /\ i >= fend

C8_Witness ==
  /\ fkind = "quoted" /\ field = <<SP, delim>>
  /\ fend = Len(text) /\ At(text, fend - 1) = DQ

NotBlank(r) == r # << << >> >>

\* C9: the rows kept never contain a row that is exactly one empty field nor
\* a row without fields; every other completed row is kept, in input order,
\* wherever the blank rows occur; an empty text yields no rows.
C9_BlankRowDiscard ==
  /\ \A k \in 1..Len(rows) : Len(rows[k]) > 0 /\ rows[k] # << << >> >>
  /\ \A k \in 1..Len(scanned) : Len(scanned[k]) > 0
  /\ rows = SelectSeq(scanned, NotBlank)
  /\ (pc \in {"parsed", "built"} /\ text = << >> => rows = << >>)

C9_Witness ==
  /\ pc = "parsed" /\ Len(scanned) = 3 /\ scanned[2] = << << >> >>
  /\ rows = <<scanned[1], scanned[3]>> /\ Len(rows[2]) < Len(rows[1])

\* C10: buildData returns empty headers and data for no rows; otherwise the
\* headers are the fields of rows[0], an empty one replaced by 'Column ' and
\* its one-based position, and data is rows[1..] with every row unchanged;
\* headers is empty iff there are no rows.
C10_BuildData ==
  pc = "built" =>
    /\ (rows = << >> => headers = << >> /\ data = << >>)
    /\ (rows # << >> =>
          /\ Len(headers) = Len(rows[1])
          /\ \A k \in 1..Len(headers) :
                headers[k] = IF rows[1][k] # << >> THEN rows[1][k]
                             ELSE <<"C", "o", "l", "u", "m", "n", " ", Digit(k)>>
          /\ Len(data) = Len(rows) - 1
          /\ \A k \in 1..Len(data) : data[k] = rows[k + 1])
    /\ (headers = << >> <=> rows = << >>)

C10_Witness ==
  /\ pc = "built" /\ Len(rows) = 2 /\ Len(rows[1]) = 2
  /\ rows[1][1] = << >> /\ rows[1][2] # << >>
  /\ headers[1] = <<"C", "o", "l", "u", "m", "n", " ", "1">> /\ data = <<rows[2]>>

----------------------------------------------------------------------------
(* Claims about the paginator *)

\* C2: for pageSize > 0 the slices of pages 1..calcTotalPages, concatenated
\* in order, are the rows: after each page the concatenation is the prefix of
\* the rows that the pages taken so far cover (no gap, no overlap), and after
\* the last page it is the whole sequence.
C2_PaginationCoverage ==
  pageSize > 0 /\ pc \in {"slice", "covered"} =>
    /\ acc = SubSeq(filtered, 1, Min((page - 1) * pageSize, Len(filtered)))
    /\ (pc = "covered" => acc = filtered)

C2_Witness ==
  /\ pc = "covered" /\ pageSize = 2 /\ Len(filtered) = 5 /\ total = 3
  /\ acc = filtered /\ filtered[1] # filtered[2]

\* C3: for total in 1..100 and current in 1..total the page list has no two
\* adjacent ellipsis markers, starts with 1 and, when total > 1, ends with total.
C3_EllipsisWellFormed ==
  pc = "listed" =>
    /\ \A k \in 1..(Len(plist) - 1) : ~(plist[k] = ELL /\ plist[k + 1] = ELL)
    /\ Len(plist) >= 1 /\ plist[1] = 1
    /\ (total > 1 => plist[Len(plist)] = total)

C3_Witness ==
  pc = "listed" /\ total = 100 /\ cur = 50 /\ plist = <<1, ELL, 49, 50, 51, ELL, 100>>

\* the rows whose zero-based index is in [lo, hi), in order
RowsInRange(rs, lo, hi) ==
  LET a == Max(lo, 0)
      b == Min(hi, Len(rs))
  IN  IF a < b THEN SubSeq(rs, a + 1, b) ELSE << >>

\* C16: getPageSlice returns all rows for pageSize = 0; for pageSize > 0 and
\* any integer page, also page <= 0 and pages past the end, it returns exactly
\* the rows whose zero-based index lies in [(page-1)*pageSize, page*pageSize),
\* none when that range misses the sequence.
C16_PageSlice ==
  pc = "asked" =>
    slice = IF pageSize = 0 THEN filtered
            ELSE RowsInRange(filtered, (page - 1) * pageSize, page * pageSize)

\* ceil(n / d) for n >= 0, d > 0: the least q with q * d >= n
CeilOf(n, d) == CHOOSE q \in 0..n : q * d >= n /\ \A p \in 0..(q - 1) : p * d < n

\* max(1, ceil(count / pageSize)), 1 for pageSize = 0; at least 1; 1 for no rows
PageCountRule ==
  LET count == Len(filtered)
  IN  /\ total = IF pageSize = 0 THEN 1 ELSE Max(1, CeilOf(count, pageSize))
      /\ total >= 1
      /\ (count = 0 => total = 1)

\* with count = m * pageSize + 1 rows, m >= least: one page more than with
\* the m * pageSize rows
OneMoreRowOneMorePage(least) ==
  LET count == Len(filtered)
  IN  pageSize > 0 /\ count >= 1 /\ (count - 1) % pageSize = 0
        /\ (count - 1) \div pageSize >= least
      => total = calcTotalPages(count - 1, pageSize) + 1

\* C17 as stated: calcTotalPages(count, pageSize) is 1 for pageSize = 0 and
\* max(1, ceil(count / pageSize)) otherwise; it is at least 1, it is 1 for
\* count = 0, and one more row than an exact multiple of pageSize (0 is one)
\* adds exactly one page.
C17_TotalPages ==
  pc \in {"slice", "covered"} => PageCountRule /\ OneMoreRowOneMorePage(0)

\* C17 amended: the same, the last part for a positive multiple of pageSize:
\* one row has one page, as no rows have.
C17_TotalPagesPositiveMultiple ==
  pc \in {"slice", "covered"} =>
    /\ PageCountRule /\ OneMoreRowOneMorePage(1)
    /\ (pageSize > 0 /\ Len(filtered) = 1 => total = 1 /\ calcTotalPages(0, pageSize) = 1)

\* five rows in pages of two: three pages, four rows have two
C17_Witness ==
  /\ pc = "slice" /\ pageSize = 2 /\ Len(filtered) = 5 /\ total = 3
  /\ calcTotalPages(4, 2) = 2

\* C18: for total <= 7 the page list is 1..total without a marker; for
\* total > 7 it is exactly: 1, a marker iff current > 3, the pages from
\* max(2, current-1) to min(total-1, current+1) in increasing order, a marker
\* iff current < total-2, and total.
C18_PageListContents ==
  pc = "listed" =>
    IF total <= 7
    THEN Len(plist) = total /\ \A k \in 1..total : plist[k] = k
    ELSE LET lo == Max(2, cur - 1)
             hi == Min(total - 1, cur + 1)
             n  == hi - lo + 1
             m1 == IF cur > 3 THEN 1 ELSE 0
             m2 == IF cur < total - 2 THEN 1 ELSE 0
         IN  /\ Len(plist) = 1 + m1 + n + m2 + 1
             /\ plist[1] = 1
             /\ (m1 = 1 => plist[2] = ELL)
             /\ \A k \in 1..n : plist[1 + m1 + k] = lo + k - 1
             /\ (m2 = 1 => plist[1 + m1 + n + 1] = ELL)
             /\ plist[Len(plist)] = total

\* page 3 of 8: no marker in front, one behind
C18_Witness ==
  pc = "listed" /\ total = 8 /\ cur = 3 /\ plist = <<1, 2, 3, 4, ELL, 8>>

----------------------------------------------------------------------------
(* Claims about filterRows and sortRows *)

\* C4: filtering the result of filterRows again, with the same headers,
\* search and column filters, returns the same row sequence.
C4_FilterIdempotent == pc = "refiltered" => result2 = result

C4_Witness ==
  /\ pc = "refiltered" /\ globalSearch # << >> /\ ~colFilters.null
  /\ Len(data) = 3 /\ Len(result) = 1 /\ result[1] = data[3] /\ result2 = result

\* C5: sortRows with sortCol = -1 (any direction) or with direction 'none'
\* (any column), under any type map, returns the rows in their input order.
C5_SortNoOp ==
  pc = "sorted" /\ (sortCol = -1 \/ sortDir = "none") => result = data

C5_Witness ==
  /\ pc = "sorted" /\ sortDir = "none" /\ sortCol = 1 /\ result = data
  /\ sortRows(data, 1, "asc", colTypes, lenient) # data
  /\ sortRows(data, 1, "desc", colTypes, lenient) # data

\* C6: a call of filterRows or sortRows leaves the row sequence it was given
\* as it was: same length, same rows at the same positions, same fields
\* (data for the calls on the table, result for filterRows on its own result).
C6_InputUntouched == [][data' = data /\ (pc = "filtered" => result' = result)]_vars

C6_Witness ==
  /\ pc = "sorted" /\ Len(data) = 3 /\ result # data /\ Len(result) = 3
  /\ result[1] = data[3]

\* sub occurs in s, letter case ignored
ContainsCI(s, sub) ==
  \E k \in 0..(Len(s) - Len(sub)) :
    \A j \in 1..Len(sub) : ToLowerChar(s[k + j]) = ToLowerChar(sub[j])

\* the entries of colFilters, none when it is null
FilterEntries == IF colFilters.null THEN << >> ELSE colFilters.val

SearchMatches(r) ==
  globalSearch = << >> \/ \E k \in 1..Len(r) : ContainsCI(r[k], globalSearch)

ClaimedKeeps(r) ==
  /\ SearchMatches(r)
  /\ \A c \in 0..(Len(FilterEntries) - 1) :
        FilterEntries[c + 1] # << >> => ContainsCI(Cell(r, c), FilterEntries[c + 1])

KeepsWithinHeaders(r) ==
  /\ SearchMatches(r)
  /\ \A c \in 0..(Min(Len(FilterEntries), Len(headers)) - 1) :
        FilterEntries[c + 1] # << >> => ContainsCI(Cell(r, c), FilterEntries[c + 1])

\* C13 as stated: filterRows keeps a row iff the search is empty or occurs in
\* some field, letter case ignored, and for every index c at which colFilters
\* has a non-empty entry the row's field c (missing read as '') contains that
\* entry; null colFilters is an all-empty list; kept rows keep their order.
C13_FilterPredicate == pc = "filtered" => result = SelectSeq(data, ClaimedKeeps)

\* C13 amended: the same, for the indices c below headers.length only; an
\* entry of colFilters at an index from headers.length on is not looked at.
C13_FilterPredicateWithinHeaders ==
  pc = "filtered" => result = SelectSeq(data, KeepsWithinHeaders)

\* a filter list longer than the headers: column 0 decides, the rest is ignored
C13_Witness ==
  /\ pc = "filtered" /\ Len(headers) = 1 /\ Len(FilterEntries) = 3
  /\ FilterEntries[3] # << >> /\ globalSearch = << >>
  /\ Len(data) = 3 /\ Len(result) = 2 /\ result = <<data[1], data[3]>>
  /\ data[2][1] = <<"a">>

\* the numeric sort key of a row: its field in the sort column, trimmed,
\* commas removed, parsed; NaN stands for minus infinity
NumKey(r) == ParseFloat(StripCommas(Trim(Cell(r, sortCol))))

KeyLeq(a, b) == a.nan \/ (~b.nan /\ a.val <= b.val)

IsPermutation(a, b) ==
  /\ Len(a) = Len(b)
  /\ \A x \in {a[k] : k \in 1..Len(a)} \cup {b[k] : k \in 1..Len(b)} :
        Cardinality({k \in 1..Len(a) : a[k] = x}) = Cardinality({k \in 1..Len(b) : b[k] = x})

\* C14: on a column typed number, sortRows returns a permutation of the rows;
\* with 'asc' the keys (field trimmed, commas removed, parsed as a number, an
\* unparseable, empty or missing one being minus infinity) never decrease, so
\* the unparseable rows come first; with 'desc' the keys never increase and
\* the unparseable rows come last.
C14_NumericSortOrder ==
  pc = "sorted" /\ sortCol >= 0 /\ sortDir # "none" /\ TypeOf(colTypes, sortCol) = "number" =>
    /\ IsPermutation(result, data)
    /\ \A k \in 1..(Len(result) - 1) :
          IF sortDir = "asc" THEN KeyLeq(NumKey(result[k]), NumKey(result[k + 1]))
          ELSE KeyLeq(NumKey(result[k + 1]), NumKey(result[k]))
    /\ \A j \in 1..Len(result), k \in 1..Len(result) :
          NumKey(result[j]).nan /\ ~NumKey(result[k]).nan =>
            IF sortDir = "asc" THEN j < k ELSE k < j

\* '1,0' (ten), '2' and 'x' in column 1, ascending: x, 2, 1,0
C14_Witness ==
  /\ pc = "sorted" /\ sortCol = 1 /\ sortDir = "asc" /\ TypeOf(colTypes, 1) = "number"
  /\ Len(data) = 3
  /\ Cell(data[1], 1) = <<"1", COMMA, "0">> /\ Cell(data[2], 1) = <<"2">>
  /\ Cell(data[3], 1) = <<"x">>
  /\ result = <<data[3], data[2], data[1]>>

----------------------------------------------------------------------------
(* Claims about detectColTypes *)

\* C11: the type map has an entry for exactly the indices 0..headers.length-1.
\* For column c, total counts the non-empty trimmed values of the column in
\* the sample, numOk those that parse as a number once commas are removed and
\* dateOk those that do not but parse as a date; the type is 'string' when
\* total = 0, else 'number' when 5*numOk >= 4*total, else 'date' when
\* 5*dateOk >= 4*total, else 'string' (exactly 80% is enough).
C11_TypeDecision ==
  pc \in {"detected", "detectedBoth"} =>
    /\ DOMAIN colTypes = 1..Len(headers)
    /\ \A c \in 0..(Len(headers) - 1) :
          LET n        == Min(Len(data), SampleSize)
              v(k)     == Trim(Cell(data[k], c))
              nonEmpty == {k \in 1..n : v(k) # << >>}
              numbers  == {k \in nonEmpty : ~NumberOf(StripCommas(v(k))).nan}
              dates    == {k \in nonEmpty \ numbers : ~DateParse(v(k), lenient).nan}
              nTotal   == Cardinality(nonEmpty)
              numOk    == Cardinality(numbers)
              dateOk   == Cardinality(dates)
          IN  colTypes[c + 1] = IF nTotal = 0 THEN "string"
                                ELSE IF 5 * numOk >= 4 * nTotal THEN "number"
                                ELSE IF 5 * dateOk >= 4 * nTotal THEN "date"
                                ELSE "string"

\* four numbers and one text in column 0, nothing in column 1
C11_Witness ==
  /\ pc = "detected" /\ Len(headers) = 2 /\ Len(data) = 5
  /\ Cardinality({k \in 1..5 : data[k] = << <<"7">> >>}) = 4
  /\ Cardinality({k \in 1..5 : data[k] = << <<"x">> >>}) = 1
  /\ colTypes = <<"number", "string">>

\* C12: two tables with the same headers whose first 500 data rows are the
\* same get the same type map, whatever rows follow.
C12_SampleBound ==
  pc = "detectedBoth" /\ Slice(data, 0, SampleSize) = Slice(other, 0, SampleSize)
    => otherTypes = colTypes

\* 400 numbers then 101 texts, against the same 500 rows followed by a date
C12_Witness ==
  /\ pc = "detectedBoth" /\ Len(data) = SampleSize + 1 /\ Len(other) = SampleSize + 1
  /\ data[1] = << <<"7">> >> /\ data[SampleSize + 1] = << <<"x">> >>
  /\ other[SampleSize + 1] = << IsoDay >>
  /\ colTypes[1] = "number" /\ otherTypes = colTypes

----------------------------------------------------------------------------
(* Claims about the export *)

\* s is what String gives for the value: '' for null and undefined, the
\* decimal digits for a number, the string itself for a string
IsStringOf(s, val) ==
  IF val.t \in {"null", "undefined"} THEN s = << >>
  ELSE IF val.t = "number"
  THEN /\ s # << >> /\ \A k \in 1..Len(s) : IsDigit(s[k])
       /\ DigitsValue(s) = val.n /\ (Len(s) > 1 => s[1] # "0")
  ELSE s = val.s

\* q is s between double quotes, each double quote of s written twice
IsQuoted(q, s) ==
  /\ Len(q) = Len(s) + CountChar(s, DQ) + 2
  /\ q[1] = DQ /\ q[Len(q)] = DQ
  /\ QuotedBody(q, 1, << >>) = [field |-> s, i |-> Len(q)]

\* C19: escapeCSVField turns null and undefined into the empty string and
\* any other value into its string; the result is that string between double
\* quotes with every double quote in it doubled iff the string contains a
\* comma, a double quote, LF or CR, and the string itself otherwise.
C19_EscapeField ==
  pc = "escaped" =>
    \E s \in {JsString(escVal)} :
      /\ IsStringOf(s, escVal)
      /\ IF \E k \in 1..Len(s) : s[k] \in {COMMA, DQ, LF, CR}
         THEN IsQuoted(escaped, s)
         ELSE escaped = s

\* a string with a carriage return and a double quote
C19_Witness ==
  /\ pc = "escaped" /\ escVal = JsStr(<<CR, DQ, "a">>)
  /\ escaped = <<DQ, CR, DQ, DQ, "a", DQ>>

\* the line of a row: one escaped field per header, joined by commas
LineOf(r) == Join([c \in 1..Len(headers) |-> escapeCSVField(Cell(r, c - 1))], <<COMMA>>)

\* C20: the text of exportCSV is a function of state.headers and
\* state.filtered only: behind the header line it has one line per row of
\* state.filtered, all of them, in their order, whatever state.page and
\* state.pageSize are; an export repeated on another page gives the same text.
C20_ExportWholeView ==
  /\ [](lines # << >> =>
          /\ Len(lines) = 1 + Len(filtered)
          /\ lines[1] = Join([c \in 1..Len(headers) |-> escapeCSVField(headers[c])], <<COMMA>>)
          /\ \A k \in 1..Len(filtered) : lines[k + 1] = LineOf(filtered[k])
          /\ exported = <<BOM>> \o Join(lines, <<CR, LF>>))
  /\ [][lines # << >> /\ headers' = headers /\ filtered' = filtered
          => lines' = lines /\ exported' = exported]_vars

\* three rows exported from page 2 of 3
C20_Witness ==
  /\ pc = "view" /\ Len(filtered) = 3 /\ pageSize = 1 /\ page = 2
  /\ Len(lines) = 4 /\ lines[4] = LineOf(filtered[3])
  /\ filtered[1] # filtered[2]

----------------------------------------------------------------------------
(* More claims about the parser *)

\* C21: for every text, also with an unterminated quoted field, characters
\* directly after a closing quote, a lone CR or a trailing delimiter, the
\* cursor of parseCSV grows with every field scanned and never passes the end
\* of the text, the scan ends with the cursor at the end of the text, and the
\* {rows, delim} result is returned.
C21_ParserTerminates ==
  /\ [][pc = "scan" /\ pc' = "scan" => i' > i /\ i' <= Len(text)]_vars
  /\ [](pc \in {"parsed", "built"} => i = Len(text))
  /\ <>(pc = "parsed")

\* a field, then a quoted field never closed that holds the last delimiter
C21_Witness ==
  /\ pc = "parsed" /\ text = <<COMMA, DQ, COMMA>> /\ i = 3
  /\ rows = << << << >>, <<COMMA>> >> >>

----------------------------------------------------------------------------
(* More claims about the page-button list *)

\* the positions of the page numbers in the list
NumberAt == {k \in 1..Len(plist) : plist[k] # ELL}

\* C29: the page numbers in the page list grow strictly along the list, lie
\* in 1..total and include the current page; two numbers next to each other
\* are consecutive, two numbers with a marker between them differ by at least
\* 2 (a marker hides at least one page), and for total > 7 the list has at
\* most 7 entries.
C29_FaithfulCompression ==
  pc = "listed" =>
    /\ \A j \in NumberAt, k \in NumberAt : j < k => plist[j] < plist[k]
    /\ \A k \in NumberAt : plist[k] \in 1..total
    /\ \E k \in NumberAt : plist[k] = cur
    /\ \A k \in 1..(Len(plist) - 1) :
          k \in NumberAt /\ k + 1 \in NumberAt => plist[k + 1] = plist[k] + 1
    /\ \A k \in 2..(Len(plist) - 1) :
          k \notin NumberAt =>
            /\ k - 1 \in NumberAt /\ k + 1 \in NumberAt
            /\ plist[k + 1] - plist[k - 1] >= 2
    /\ plist[1] # ELL /\ plist[Len(plist)] # ELL
    /\ (total > 7 => Len(plist) <= 7)

\* page 4 of 8: the first marker hides page 2 only, the second pages 6 and 7
C29_Witness ==
  pc = "listed" /\ total = 8 /\ cur = 4 /\ plist = <<1, ELL, 3, 4, 5, ELL, 8>>

----------------------------------------------------------------------------
(* More claims about the export *)

\* the fields of a CSV line: one more than its commas outside double quotes
RECURSIVE CommasOutsideQuotes(_, _)
CommasOutsideQuotes(line, inQuotes) ==
  IF line = << >> THEN 0
  ELSE IF Head(line) = DQ THEN CommasOutsideQuotes(Tail(line), ~inQuotes)
  ELSE (IF Head(line) = COMMA /\ ~inQuotes THEN 1 ELSE 0)
         + CommasOutsideQuotes(Tail(line), inQuotes)

FieldCount(line) == CommasOutsideQuotes(line, FALSE) + 1

\* the row cut or padded with empty fields to the width of the headers
ToHeaderWidth(r) == [c \in 1..Len(headers) |-> Cell(r, c - 1)]

\* C30: every line written by exportCSV has exactly headers.length fields: a
\* shorter row is padded with empty fields, and the fields of a row at
\* indices from headers.length on are left out, although they are still in
\* state.data and the global search still matches them.
C30_ExportRowWidth ==
  lines # << >> =>
    /\ \A k \in 1..Len(lines) : FieldCount(lines[k]) = Len(headers)
    /\ \A k \in 1..Len(filtered) : lines[k + 1] = SerializeRow(ToHeaderWidth(filtered[k]))
    /\ \A k \in 1..Len(filtered) : \E j \in 1..Len(data) : data[j] = filtered[k]
    /\ \A j \in 1..Len(data) :
          (\E c \in (Len(headers) + 1)..Len(data[j]) : ContainsCI(data[j][c], globalSearch))
            => \E k \in 1..Len(filtered) : filtered[k] = data[j]

\* one header and the search 'e', found in the third field of one row only:
\* the row is in the view and its line is its first field
C30_Witness ==
  /\ lines # << >> /\ Len(headers) = 1 /\ globalSearch = <<"e">>
  /\ Len(data) = 3 /\ filtered = << << <<"c">>, <<"d">>, <<"e">> >> >>
  /\ lines[2] = <<"c">>

----------------------------------------------------------------------------
(* Claims about the application *)

\* C22: after resetToUpload ("Load new file") the state equals its initial
\* value: headers, data and filtered are empty, colTypes is empty,
\* sortCol = -1, sortDir = 'none', globalSearch = '', colFilters is empty and
\* page = 1.
C22_ResetClearsState ==
  [][screen = "table" /\ screen' = "upload" =>
       /\ headers' = << >> /\ data' = << >> /\ filtered' = << >>
       /\ colTypes' = << >>
       /\ sortCol' = -1 /\ sortDir' = "none"
       /\ globalSearch' = << >>
       /\ colFilters' = Some(<< >>)
       /\ page' = 1]_vars

\* C23: activating header c when c is not the sort column gives (c, 'asc'),
\* activating it again gives (c, 'desc'), a third activation gives
\* (-1, 'none'); three consecutive activations of one column return to the
\* unsorted view, and always sortCol = -1 iff sortDir = 'none'.
\* A step that changes the sort while no reader completes is an activation.
C23_SortCycle ==
  /\ [][(<<sortCol, sortDir>>' # <<sortCol, sortDir>> /\ pending' = pending) =>
          /\ (sortCol' # sortCol /\ sortCol' # -1) => sortDir' = "asc"
          /\ sortCol' = sortCol => (sortDir = "asc" /\ sortDir' = "desc")
          /\ sortCol' = -1 => (sortDir = "desc" /\ sortDir' = "none")]_vars
  /\ [](/\ streak.n = 1 => (sortCol = streak.c /\ sortDir = "asc")
        /\ streak.n = 2 => (sortCol = streak.c /\ sortDir = "desc")
        /\ streak.n = 3 => (sortCol = -1 /\ sortDir = "none")
        /\ streak.n \in 0..3
        /\ sortCol = -1 <=> sortDir = "none")

C23_Witness ==
  /\ screen = "table" /\ shownName = "a.csv"
  /\ streak = [c |-> 1, n |-> 3] /\ sortCol = -1 /\ sortDir = "none"

\* a reader completes with a text that has a header row
LoadSucceeds ==
  \E f \in ReaderFiles :
    /\ pending' = [pending EXCEPT ![f] = @ - 1]
    /\ Readable(f)
    /\ buildData(parseCSV(FileText(f)).rows).headers # << >>

\* C24: every handler that changes the global search, a column filter or the
\* sort, a successful load included, ends with state.filtered =
\* sortRows(filterRows(data, headers, globalSearch, colFilters), sortCol,
\* sortDir, colTypes) and state.page = 1; between events state.filtered is
\* never stale.
C24_UpdateDiscipline ==
  /\ [](filtered = sortRows(filterRows(data, headers, globalSearch, colFilters),
                            sortCol, sortDir, colTypes, lenient))
  /\ [][(\/ globalSearch' # globalSearch
         \/ colFilters' # colFilters
         \/ <<sortCol, sortDir>>' # <<sortCol, sortDir>>
         \/ LoadSucceeds) => page' = 1]_vars

C24_Witness ==
  /\ screen = "table" /\ shownName = "a.csv" /\ pageSize = 1
  /\ globalSearch = <<"a">> /\ sortCol = 1 /\ sortDir = "asc"
  /\ Len(filtered) = 2 /\ filtered # filterRows(data, headers, globalSearch, colFilters)
  /\ page = 1

\* C26: while a table is loaded, 1 <= state.page <=
\* calcTotalPages(state.filtered.length, state.pageSize) under any sequence of
\* page-button, previous/next, page-size, search, column-filter and sort
\* events; no enabled button leads below page 1 or past the last page.
C26_PageInRange ==
  screen = "table" =>
    LET last == calcTotalPages(Len(filtered), pageSize)
    IN  /\ 1 <= page /\ page <= last
        /\ buttons \subseteq 1..last
        /\ page \notin buttons

C26_Witness ==
  /\ screen = "table" /\ shownName = "a.csv" /\ pageSize = 1 /\ sortCol = 1
  /\ Len(filtered) = 3 /\ page = 3 /\ buttons = {1, 2}

\* the fields of state (app.js:9-21)
AppState ==
  <<headers, data, colTypes, filtered, sortCol, sortDir, globalSearch, colFilters,
    page, pageSize, fileName>>

\* a file whose load attempt fails: its read fails or its text has no header row
FailsToLoad(f) ==
  ~Readable(f) \/ buildData(parseCSV(FileText(f)).rows).headers = << >>

\* C27: a load attempt that fails (unsupported type, read error, or content
\* with zero headers) leaves every field of state unchanged, fileName
\* included: no step of such an attempt, from the loadFile call to the
\* reader's callback, changes state.
C27_FailedLoadChangesNothing ==
  [][(\E f \in ReaderFiles : FailsToLoad(f) /\ pending'[f] # pending[f])
       => UNCHANGED AppState]_vars

\* C28: when loadFile is called for a second file before the reader of the
\* first has completed, then for either completion order of the two onload
\* callbacks the final state.fileName names the file whose contents are in
\* state.headers and state.data. Final: no reader is in flight; the files are
\* ones whose load succeeds.
C28_OverlappingLoads ==
  (screen = "table" /\ pending = NoReaders /\ ~FailsToLoad(fileName)) =>
    LET built == buildData(parseCSV(FileText(fileName)).rows)
    IN  headers = built.headers /\ data = built.data

====
